---- MODULE Spec2Model ----
(***************************************************************************)
(* A model of ts-typed-function: the Typed registry (guards, conversions), *)
(* the signature decorator, Typed.function (the signature compiler) and    *)
(* the callables built by Typed._makeFunction.                             *)
(*                                                                         *)
(* JavaScript arrays that are shared by reference are modelled with an     *)
(* explicit heap: a guard list captured by a compiled callable is an       *)
(* address, so that writing to a list in place would be seen by every      *)
(* holder of the address.                                                  *)
(***************************************************************************)
EXTENDS Naturals, Sequences, FiniteSets, TLC

\* ------------------------------------------------------------------ bounds
\* add() calls after construction, per behaviour
MaxAdds == 2
\* Typed.function() calls that return a callable, per behaviour
MaxFns == 2
\* signature decorators applied to the function spec class F
MaxDecl == 3

\* ------------------------------------------------------- the value universe
\* Runtime values: the number 3, the string '3', Pair(3,0) and Pair(0,6).
Values == {"n3", "s3", "P30", "P06"}

\* Type tokens used in signatures.
Tokens == {"Number", "String", "Pair"}

\* Classes that may be handed to Typed.add: Pair carries no guard and the
\* conversion toNumber (Pair to Number); PairTypes holds, as DefaultTypes
\* does for the built-in types, two guards for Pair (isPair, isReal) and the
\* conversions fromNumber (Number to Pair) and fromString (String to Number).
Addable == {"Pair", "PairTypes"}

\* x instanceof ctor
InstanceOf(ctor, x) ==
    CASE ctor = "Pair" -> x \in {"P30", "P06"}
      [] OTHER -> FALSE

\* A guard is a static method of a class (named by its key) or the closure
\* (x) => x instanceof ctor that autoadd makes ("instanceof" \o ctor).
\* isReal is (x) => typeof x === 'number' || x.im === 0.
GuardHolds(g, x) ==
    CASE g = "isNumber" -> x = "n3"
      [] g = "isString" -> x = "s3"
      [] g = "isNull" -> FALSE
      [] g = "isPair" -> InstanceOf("Pair", x)
      [] g = "isReal" -> x \in {"P30", "n3"}
      [] g = "instanceofPair" -> InstanceOf("Pair", x)
      [] g = "instanceofNumber" -> InstanceOf("Number", x)
      [] g = "instanceofString" -> InstanceOf("String", x)
      [] OTHER -> FALSE

\* A conversion is a static method of a class, named by its key; I is the
\* identity used for declared types. fromNumber is (a) => new Pair(a, 0),
\* fromString is (s) => Number(s), toNumber is (p) => p.re.
ApplyConversion(c, x) ==
    CASE c = "I" -> x
      [] c = "fromNumber" -> IF x = "n3" THEN "P30" ELSE "junk"
      [] c = "fromString" -> IF x = "s3" THEN "n3" ELSE "junk"
      [] c = "toNumber" -> IF x = "P30" THEN "n3" ELSE IF x = "P06" THEN "n0" ELSE "junk"
      [] OTHER -> "junk"

\* ------------------------------------------------- class metadata (add side)
\* The guard map a class carries (META_GUARDS), in key insertion order; type
\* "falsy" is a stored type that is null or undefined (@guard(null),
\* @guard()). <<>> stands for a class with no guard metadata
\* (Reflect.getMetadata gives undefined). Of DefaultTypes the guards for
\* Number, String and null are modelled.
GuardMapOf(ctor) ==
    CASE ctor = "DefaultTypes" ->
           << [key |-> "isNumber", type |-> "Number"],
              [key |-> "isString", type |-> "String"],
              [key |-> "isNull", type |-> "falsy"] >>
      [] ctor = "PairTypes" ->
           << [key |-> "isPair", type |-> "Pair"],
              [key |-> "isReal", type |-> "Pair"] >>
      [] OTHER -> << >>

\* The conversion map a class carries (META_CONVERSIONS), in key order.
ConversionMapOf(ctor) ==
    CASE ctor = "Pair" ->
           << [key |-> "toNumber", fromType |-> "Pair", toType |-> "Number"] >>
      [] ctor = "PairTypes" ->
           << [key |-> "fromNumber", fromType |-> "Number", toType |-> "Pair"],
              [key |-> "fromString", fromType |-> "String", toType |-> "Number"] >>
      [] OTHER -> << >>

\* Everything that can be a key of the registry's WeakMaps.
Ctors == Tokens \cup Addable \cup {"DefaultTypes"}

\* typeof ctor === 'function'
IsFunction(ctor) == ctor \in Ctors

\* ------------------------------------------------------------ the registry
\* A registry value r is [guards, heap, conversions]:
\*   guards[t]      address in heap of the guard array stored under t in
\*                  this.guards, 0 when the WeakMap has no entry for t
\*   heap           the guard arrays ever allocated
\*   conversions[t] the ConversionMethod[] stored under toType t (<<>> when
\*                  the WeakMap has no entry; the code reads it with || [])
EmptyRegistry ==
    [guards |-> [t \in Ctors |-> 0],
     heap |-> << >>,
     conversions |-> [t \in Ctors |-> << >>]]

\* this.guards.get(type) || []
Existing(r, type) ==
    IF r.guards[type] = 0 THEN << >> ELSE r.heap[r.guards[type]]

\* this.guards.set(type, arr) with arr a freshly built array
SetGuards(r, type, arr) ==
    [r EXCEPT !.heap = Append(@, arr),
              !.guards[type] = Len(r.heap) + 1]

\* AddGuardEntry pushing the method onto the stored array instead of
\* storing a new array
AddGuardEntry_InPlace(r, ctor, entry) ==
    LET type == IF entry.type = "falsy" THEN ctor ELSE entry.type
    IN IF r.guards[type] = 0 THEN SetGuards(r, type, << entry.key >>)
       ELSE [r EXCEPT !.heap[r.guards[type]] = Append(@, entry.key)]

\* One iteration of the for-in loop of _addTypes.
AddGuardEntry(r, ctor, entry) ==
    LET type == IF entry.type = "falsy" THEN ctor ELSE entry.type
    IN SetGuards(r, type, Existing(r, type) \o << entry.key >>)

RECURSIVE AddGuardEntries(_, _, _)
AddGuardEntries(r, ctor, map) ==
    IF map = << >> THEN r
    ELSE AddGuardEntries(AddGuardEntry(r, ctor, Head(map)), ctor, Tail(map))

_addTypes(r, ctor, autoadd) ==
    IF GuardMapOf(ctor) = << >>
    THEN IF autoadd /\ IsFunction(ctor)
         THEN SetGuards(r, ctor, << "instanceof" \o ctor >>)
         ELSE r
    ELSE AddGuardEntries(r, ctor, GuardMapOf(ctor))

\* One iteration of the for-in loop of _addConversions.
AddConversionEntry(r, entry) ==
    [r EXCEPT !.conversions[entry.toType] =
        @ \o << [fromType |-> entry.fromType, convert |-> entry.key] >>]

RECURSIVE AddConversionEntries(_, _)
AddConversionEntries(r, map) ==
    IF map = << >> THEN r
    ELSE AddConversionEntries(AddConversionEntry(r, Head(map)), Tail(map))

_addConversions(r, ctor) == AddConversionEntries(r, ConversionMapOf(ctor))

\* Typed.add for one class.
AddOne(r, ctor, autoadd) == _addConversions(_addTypes(r, ctor, autoadd), ctor)

\* ------------------------------------------------ the signature decorator
\* The @signature declarations class F may carry: method a for (number,
\* number) and for (Pair, Pair), method b for (Pair, Pair) and for no
\* parameters. params lists single types.
DeclChoices ==
    { [key |-> "a", params |-> << "Number", "Number" >>],
      [key |-> "a", params |-> << "Pair", "Pair" >>],
      [key |-> "b", params |-> << "Pair", "Pair" >>],
      [key |-> "b", params |-> << >>] }

\* The longest parameter list declared.
MaxArity ==
    CHOOSE n \in { Len(d.params) : d \in DeclChoices } :
        \A d \in DeclChoices : Len(d.params) <= n

\* A SignatureMap is a sequence of [key, sigs] in key insertion order (the
\* order for-in visits); sigs is the Signature[] stored under the key.
KeyIndex(map, key) ==
    IF \E i \in 1..Len(map) : map[i].key = key
    THEN CHOOSE i \in 1..Len(map) : map[i].key = key
    ELSE 0

\* paramTypes.map(t => Array.isArray(t) ? t : [t]) for single types
NewSignature(paramTypes) == [i \in 1..Len(paramTypes) |-> << paramTypes[i] >>]

\* signature with the new signature put behind the existing ones
signature_Appending(map, key, paramTypes) ==
    IF KeyIndex(map, key) = 0
    THEN Append(map, [key |-> key, sigs |-> << NewSignature(paramTypes) >>])
    ELSE [map EXCEPT ![KeyIndex(map, key)].sigs =
                        @ \o << NewSignature(paramTypes) >>]

\* map = {...map, [key]: [newSignature, ...existingSignatures]}
signature(map, key, paramTypes) ==
    IF KeyIndex(map, key) = 0
    THEN Append(map, [key |-> key, sigs |-> << NewSignature(paramTypes) >>])
    ELSE [map EXCEPT ![KeyIndex(map, key)].sigs =
                        << NewSignature(paramTypes) >> \o @]

\* The metadata of a class whose decorators were applied in the order decls.
RECURSIVE ClassMap(_)
ClassMap(decls) ==
    IF decls = << >> THEN << >>
    ELSE LET d == decls[Len(decls)]
         IN signature(ClassMap(SubSeq(decls, 1, Len(decls) - 1)), d.key, d.params)

\* -------------------------------------------------- the signature compiler
\* conversions.forEach(...) of _convertParamToUnion for one toType;
\* acc is [types, converters].
RECURSIVE PushConversions(_, _)
PushConversions(acc, convs) ==
    IF convs = << >> THEN acc
    ELSE PushConversions(
           IF \E i \in 1..Len(acc.types) : acc.types[i] = Head(convs).fromType
           THEN acc
           ELSE [types |-> Append(acc.types, Head(convs).fromType),
                 converters |-> Append(acc.converters, Head(convs).convert)],
           Tail(convs))

\* types.forEach(toType => ...): forEach visits the indices below the length
\* the array had when the loop started, so pushed types are not visited.
RECURSIVE ExpandTypes(_, _, _, _)
ExpandTypes(acc, i, length, conversions) ==
    IF i > length THEN acc
    ELSE ExpandTypes(PushConversions(acc, conversions[acc.types[i]]),
                     i + 1, length, conversions)

\* _getGuard adding the type whatever options.autoadd says
_getGuard_AlwaysAdd(r, type, autoadd) ==
    LET Resolved(r2) == [r |-> r2, guard |-> r2.guards[type], err |-> ""]
    IN Resolved(IF r.guards[type] = 0 THEN _addTypes(r, type, TRUE) ELSE r)

\* Gives [r, guard, err]: guard is the address of the array handed to
\* intersect. For the tokens of this model _addTypes always leaves an entry
\* (Number and String have one from construction on, Pair is a function).
_getGuard(r, type, autoadd) ==
    IF r.guards[type] = 0 /\ ~autoadd
    THEN [r |-> r, guard |-> 0, err |-> "Unknown type " \o type]
    ELSE LET Resolved(r2) == [r |-> r2, guard |-> r2.guards[type], err |-> ""]
         IN Resolved(IF r.guards[type] = 0 THEN _addTypes(r, type, autoadd) ELSE r)

\* types.map(t => this._getGuard(t)), stopping at the first throw
RECURSIVE MapGetGuard(_, _, _, _)
MapGetGuard(r, types, autoadd, acc) ==
    IF types = << >> THEN [r |-> r, guards |-> acc, err |-> ""]
    ELSE LET Rest(g) ==
               IF g.err # ""
               THEN [r |-> g.r, guards |-> acc, err |-> g.err]
               ELSE MapGetGuard(g.r, Tail(types), autoadd, Append(acc, g.guard))
         IN Rest(_getGuard(r, Head(types), autoadd))

\* Gives [r, types, slot, err]: types is the parameter's array after the
\* pushes, slot is [types, guards, converters] with converters = <<>> for
\* the null matcher of the noConversions case. slot.types names the token
\* of each guard; the callable does not read it.
_convertParamToUnion(r, types, autoadd) ==
    LET length == Len(types)
        noConversions(ex) == length = Len(ex.types)
        Result(ex, gs) ==
            [r |-> gs.r, types |-> ex.types, err |-> gs.err,
             slot |-> [types |-> ex.types,
                       guards |-> gs.guards,
                       converters |-> IF noConversions(ex) THEN << >>
                                      ELSE ex.converters]]
        Guarded(ex) == Result(ex, MapGetGuard(r, ex.types, autoadd, << >>))
    IN Guarded(ExpandTypes([types |-> types,
                            converters |-> [i \in 1..length |-> "I"]],
                           1, length, r.conversions))

\* The loops of Typed.function over keys (k), signatures (s) and, inside
\* _getSignatureGuard, parameters (p). st is [r, map, err, slots, sequence].
RECURSIVE CompileFrom(_, _, _, _, _)
CompileFrom(st, k, s, p, autoadd) ==
    IF st.err # "" \/ k > Len(st.map) THEN st
    ELSE IF s > Len(st.map[k].sigs) THEN CompileFrom(st, k + 1, 1, 1, autoadd)
    ELSE IF p > Len(st.map[k].sigs[s])
    THEN CompileFrom([st EXCEPT !.sequence =
                          Append(@, [slots |-> st.slots, method |-> st.map[k].key]),
                                !.slots = << >>],
                     k, s + 1, 1, autoadd)
    ELSE LET Compiled(u) ==
               CompileFrom([st EXCEPT !.r = u.r,
                                      !.map[k].sigs[s][p] = u.types,
                                      !.err = u.err,
                                      !.slots = Append(@, u.slot)],
                           k, s, p + 1, autoadd)
         IN Compiled(_convertParamToUnion(st.r, st.map[k].sigs[s][p], autoadd))

\* maxLength of Typed.function
RECURSIVE MaxLength(_)
MaxLength(sequence) ==
    IF sequence = << >> THEN 0
    ELSE LET m == MaxLength(Tail(sequence))
             n == Len(Head(sequence).slots)
         IN IF n > m THEN n ELSE m

NoFn == [mode |-> "none", sequence |-> << >>, length |-> 0]

\* The callable _makeFunction returns, as the closure it is: which of the
\* four function bodies, over which sequence.
_makeFunction(sequence, maxLength) ==
    [mode |-> IF maxLength = 0 THEN "nullary"
              ELSE IF Len(sequence) = 1 THEN "one"
              ELSE IF Len(sequence) = 2 THEN "two"
              ELSE "choose",
     sequence |-> sequence,
     length |-> maxLength]

\* Typed.function on a class whose signature metadata is m = [defined, map].
\* Gives [err, r, map, fn]. Object.keys(map).length < 0 never holds, so only
\* missing metadata gives 'No signatures provided'; with an empty sequence
\* the destructuring of sequence[0] in _makeFunction throws a TypeError.
FunctionResult(r, m, autoadd) ==
    IF ~m.defined
    THEN [err |-> "No signatures provided", r |-> r, map |-> m.map, fn |-> NoFn]
    ELSE LET Built(st) ==
               IF st.err # ""
               THEN [err |-> st.err, r |-> st.r, map |-> st.map, fn |-> NoFn]
               ELSE IF st.sequence = << >>
               THEN [err |-> "TypeError: undefined is not iterable",
                     r |-> st.r, map |-> st.map, fn |-> NoFn]
               ELSE [err |-> "", r |-> st.r, map |-> st.map,
                     fn |-> _makeFunction(st.sequence, MaxLength(st.sequence))]
         IN Built(CompileFrom([r |-> r, map |-> m.map, err |-> "",
                               slots |-> << >>, sequence |-> << >>],
                              1, 1, 1, autoadd))

\* ------------------------------------------------------- guard combinators
\* intersect(guards): every guard of the array at addr accepts x
intersect(heap, addr, x) ==
    \A i \in 1..Len(heap[addr]) : GuardHolds(heap[addr][i], x)

\* union(guards): some guard accepts x
union(heap, guards, x) ==
    \E i \in 1..Len(guards) : intersect(heap, guards[i], x)

\* tuple(slotGuards): same length and every position accepted
tuple(heap, slots, args) ==
    /\ Len(args) = Len(slots)
    /\ \A i \in 1..Len(slots) : union(heap, slots[i].guards, args[i])

\* matcher(guards, converters): the converter of the first guard, in array
\* order, that accepts x, applied to x
matcher(heap, slot, x) ==
    LET first == CHOOSE i \in 1..Len(slot.guards) :
                   /\ intersect(heap, slot.guards[i], x)
                   /\ \A j \in 1..(i - 1) : ~intersect(heap, slot.guards[j], x)
    IN ApplyConversion(slot.converters[first], x)

\* applier(matchers): each argument through its position's matcher, an
\* argument whose matcher is null unchanged
applier(heap, slots, args) ==
    [i \in 1..Len(args) |->
        IF slots[i].converters = << >> THEN args[i]
        ELSE matcher(heap, slots[i], args[i])]

\* choose(sequence): the index of the first entry whose guard accepts args,
\* 0 when it throws because none does
choose(heap, sequence, args) ==
    IF \E i \in 1..Len(sequence) : tuple(heap, sequence[i].slots, args)
    THEN CHOOSE i \in 1..Len(sequence) :
           /\ tuple(heap, sequence[i].slots, args)
           /\ \A j \in 1..(i - 1) : ~tuple(heap, sequence[j].slots, args)
    ELSE 0

\* ------------------------------------------------------------ the callables
\* The outcome of a call: the candidate selected, the method invoked and the
\* arguments it received, or the error thrown.
Invoked(cand, method, args) ==
    [error |-> "", cand |-> cand, method |-> method, args |-> args]
NoMatch ==
    [error |-> "No alternatives were matched", cand |-> 0, method |-> "",
     args |-> << >>]

\* g_i(args) ? (c_i ? m_i.apply(this, c_i(args)) : ...) of the special cases
Try(heap, sequence, i, args) ==
    Invoked(i, sequence[i].method, applier(heap, sequence[i].slots, args))

\* CallNullary without the arguments.length test
CallNullary_AnyLength(heap, sequence, args) ==
    Invoked(1, sequence[1].method, << >>)

CallNullary(heap, sequence, args) ==
    IF Len(args) > 0 THEN NoMatch ELSE Invoked(1, sequence[1].method, << >>)

\* CallOne without the conversion step (if (c0) args = c0(args))
CallOne_NoConvert(heap, sequence, args) ==
    IF tuple(heap, sequence[1].slots, args)
    THEN Invoked(1, sequence[1].method, args)
    ELSE NoMatch

CallOne(heap, sequence, args) ==
    IF tuple(heap, sequence[1].slots, args) THEN Try(heap, sequence, 1, args)
    ELSE NoMatch

\* CallTwo asking the second guard before the first
CallTwo_SecondFirst(heap, sequence, args) ==
    IF tuple(heap, sequence[2].slots, args) THEN Try(heap, sequence, 2, args)
    ELSE IF tuple(heap, sequence[1].slots, args) THEN Try(heap, sequence, 1, args)
    ELSE NoMatch

CallTwo(heap, sequence, args) ==
    IF tuple(heap, sequence[1].slots, args) THEN Try(heap, sequence, 1, args)
    ELSE IF tuple(heap, sequence[2].slots, args) THEN Try(heap, sequence, 2, args)
    ELSE NoMatch

CallChoose(heap, sequence, args) ==
    LET Chosen(i) == IF i = 0 THEN NoMatch ELSE Try(heap, sequence, i, args)
    IN Chosen(choose(heap, sequence, args))

\* Calling the callable f with args.
Call(heap, f, args) ==
    CASE f.mode = "nullary" -> CallNullary(heap, f.sequence, args)
      [] f.mode = "one" -> CallOne(heap, f.sequence, args)
      [] f.mode = "two" -> CallTwo(heap, f.sequence, args)
      [] OTHER -> CallChoose(heap, f.sequence, args)

\* ---------------------------------------------------------------- the state
VARIABLES
    autoadd,      \* options.autoadd of the Typed instance
    guards,       \* this.guards: constructor -> address of its guard array
    heap,         \* the guard arrays
    conversions,  \* this.conversions: toType -> ConversionMethod[]
    decls,        \* the @signature decorators of class F, in application order
    meta,         \* META_METHODS metadata of each function spec class
    fns,          \* the callables Typed.function has returned, oldest first
    nadds,        \* add() calls made after construction
    registered,   \* history: the guards ever stored under each constructor
    out           \* what the last operation returned or threw

vars == << autoadd, guards, heap, conversions, decls, meta, fns, nadds,
           registered, out >>

\* Function spec classes: F is decorated, Bare has no metadata, Empty
\* carries a SignatureMap without entries.
FnSpecs == {"F", "Bare", "Empty"}

RECURSIVE SeqsUpTo(_, _)
SeqsUpTo(S, n) ==
    IF n = 0 THEN { << >> }
    ELSE LET shorter == SeqsUpTo(S, n - 1)
         IN shorter \cup { Append(q, x) : q \in shorter, x \in S }

\* The argument lists the properties range over: every list up to the
\* longest declared parameter list, and the longest ones with one more
\* number appended.
ArgLists ==
    SeqsUpTo(Values, MaxArity)
      \cup { Append(q, "n3") : q \in { a \in SeqsUpTo(Values, MaxArity) : Len(a) = MaxArity } }

\* The argument lists the calls of a behaviour pass: times(3, 6),
\* times(Complex, Complex), times(3, Complex) and times(3, '6') of the
\* tests, a string in first place, and calls with fewer and with more
\* arguments than parameters.
CallArgs ==
    { << >>, << "n3" >>, << "n3", "n3" >>, << "P30", "P06" >>,
      << "n3", "P06" >>, << "n3", "s3" >>, << "s3", "n3" >>,
      << "P06", "P06" >>, << "n3", "n3", "n3" >> }

\* The decorator sequences of class F: up to MaxDecl declarations, no
\* declaration twice.
ClassDefs ==
    { q \in SeqsUpTo(DeclChoices, MaxDecl) :
        /\ q # << >>
        /\ \A i, j \in 1..Len(q) : q[i] = q[j] => i = j }

Registry == [guards |-> guards, heap |-> heap, conversions |-> conversions]

\* out after a call of a callable: its outcome
Outcome(res) ==
    [op |-> "call", ctor |-> "", error |-> res.error, cand |-> res.cand,
     method |-> res.method, args |-> res.args]

\* out after new Typed, add(ctor) or function(ctor): the error thrown, if any
Done(op, ctor, err) ==
    [op |-> op, ctor |-> ctor, error |-> err, cand |-> 0, method |-> "",
     args |-> << >>]

\* The guards now stored under each constructor, as a set.
Stored(r) == [t \in Ctors |-> { Existing(r, t)[i] : i \in 1..Len(Existing(r, t)) }]

\* new Typed({autoadd}) followed by the definition of the spec classes
Init ==
    /\ autoadd \in BOOLEAN
    /\ LET r == AddOne(EmptyRegistry, "DefaultTypes", autoadd)
       IN /\ guards = r.guards
          /\ heap = r.heap
          /\ conversions = r.conversions
          /\ registered = Stored(r)
    /\ decls \in ClassDefs
    /\ meta = [c \in FnSpecs |->
                 CASE c = "F" -> [defined |-> TRUE, map |-> ClassMap(decls)]
                   [] c = "Bare" -> [defined |-> FALSE, map |-> << >>]
                   [] OTHER -> [defined |-> TRUE, map |-> << >>]]
    /\ fns = << >>
    /\ nadds = 0
    /\ out = Done("new", "", "")

\* typed.add(ctor)
add(ctor) ==
    /\ nadds < MaxAdds
    /\ \E r \in { AddOne(Registry, ctor, autoadd) } :
          /\ guards' = r.guards
          /\ heap' = r.heap
          /\ conversions' = r.conversions
          /\ registered' = [t \in Ctors |-> registered[t] \cup Stored(r)[t]]
    /\ nadds' = nadds + 1
    /\ out' = Done("add", ctor, "")
    /\ UNCHANGED << autoadd, decls, meta, fns >>

\* typed.function(ctor)
function(ctor) ==
    /\ Len(fns) < MaxFns
    /\ \E res \in { FunctionResult(Registry, meta[ctor], autoadd) } :
          /\ guards' = res.r.guards
          /\ heap' = res.r.heap
          /\ conversions' = res.r.conversions
          /\ registered' = [t \in Ctors |-> registered[t] \cup Stored(res.r)[t]]
          /\ meta' = [meta EXCEPT ![ctor].map = res.map]
          /\ fns' = IF res.err = "" THEN Append(fns, res.fn) ELSE fns
          /\ out' = Done("function", ctor, res.err)
    /\ UNCHANGED << autoadd, decls, nadds >>

\* fns[i](...args). A call reads heap and fns[i] alone, and neither a call
\* nor an operation that threw writes them: a call made after one of those
\* returns what it returns before it, so calls are explored from the states
\* a completed add or function left.
Invoke(i, args) ==
    /\ out.op # "call" /\ out.error = ""
    /\ out' = Outcome(Call(heap, fns[i], args))
    /\ UNCHANGED << autoadd, guards, heap, conversions, decls, meta, fns, nadds,
                    registered >>

Next ==
    \/ \E ctor \in Addable : add(ctor)
    \/ \E ctor \in FnSpecs : function(ctor)
    \/ \E i \in 1..Len(fns), args \in CallArgs : Invoke(i, args)

Spec == Init /\ [][Next]_vars

\* ------------------------------------------------------------- properties
\* The states calls are made in (the guard of Invoke). A call and an
\* operation that threw leave heap and fns as they are, so every (heap, fns)
\* a behaviour reaches is reached in one of these states. Properties that
\* quantify over all calls of all callables are evaluated in them.
Settled == out.op # "call" /\ out.error = ""

\* The candidates of f whose tuple guard accepts args.
Accepting(f, args) ==
    UNION { IF tuple(heap, f.sequence[i].slots, args) THEN { i } ELSE { } :
              i \in 1..Len(f.sequence) }

\* The callables Typed.function has returned.
Callables == { fns[n] : n \in 1..Len(fns) }

Least(S) == CHOOSE i \in S : \A j \in S : i <= j

Arity(f, i) == Len(f.sequence[i].slots)

\* C1: every call of every callable invokes the method of the first
\* candidate, in candidate-list order, whose tuple guard accepts the
\* arguments, whether or not it needs a conversion; when no tuple guard
\* accepts them it throws 'No alternatives were matched' and invokes nothing.
C1_FirstMatch ==
    Settled =>
      \A f \in Callables : \A args \in ArgLists :
        LET Holds(res, acc) ==
              IF acc = { } THEN res = NoMatch
              ELSE /\ res.error = ""
                   /\ res.cand = Least(acc)
                   /\ res.method = f.sequence[Least(acc)].method
        IN Holds(Call(heap, f, args), Accepting(f, args))

\* A call of (3, 3) went to the first candidate, which converted both
\* numbers to Pairs, while the second candidate takes the numbers as they are.
C1_Witness ==
    /\ out.op = "call" /\ out.error = "" /\ out.cand = 1
    /\ out.args = << "P30", "P30" >>
    /\ \E n \in 1..Len(fns) :
         /\ Len(fns[n].sequence) >= 2
         /\ Call(heap, fns[n], << "n3", "n3" >>) =
              Invoked(1, out.method, << "P30", "P30" >>)
         /\ 2 \in Accepting(fns[n], << "n3", "n3" >>)
         /\ fns[n].sequence[2].method # out.method
         /\ applier(heap, fns[n].sequence[2].slots, << "n3", "n3" >>) = << "n3", "n3" >>

\* C5: a candidate is invoked only with as many arguments as it has slots; a
\* callable whose one candidate has two slots throws NoMatch for one and for
\* three arguments; a callable whose candidates all have no slot runs its
\* candidate for no argument and throws NoMatch for one or more.
C5_ArityExact ==
    Settled =>
      \A f \in Callables : \A args \in ArgLists :
        LET Holds(res) ==
              /\ res.error = "" => Arity(f, res.cand) = Len(args)
              /\ (Len(f.sequence) = 1 /\ Arity(f, 1) = 2 /\ Len(args) \in {1, 3})
                    => res = NoMatch
              /\ (\A i \in 1..Len(f.sequence) : Arity(f, i) = 0)
                    => IF args = << >> THEN res.error = "" ELSE res = NoMatch
        IN Holds(Call(heap, f, args))

\* A call threw NoMatch on a callable whose one candidate has two slots,
\* which takes (3, 3) and refuses (3, 3, 3) and (3).
C5_Witness ==
    /\ out.op = "call" /\ out.error = NoMatch.error
    /\ \E n \in 1..Len(fns) :
         /\ Len(fns[n].sequence) = 1 /\ Arity(fns[n], 1) = 2
         /\ Call(heap, fns[n], << "n3", "n3" >>).error = ""
         /\ Call(heap, fns[n], << "n3", "n3", "n3" >>) = NoMatch
         /\ Call(heap, fns[n], << "n3" >>) = NoMatch

\* The declaration of a key that was applied first.
FirstDecl(key) ==
    CHOOSE i \in 1..Len(decls) :
      /\ decls[i].key = key
      /\ \A j \in 1..(i - 1) : decls[j].key # key

\* Declaration i comes before declaration j in the order C10 states.
Before(i, j) ==
    \/ FirstDecl(decls[i].key) < FirstDecl(decls[j].key)
    \/ decls[i].key = decls[j].key /\ i > j

\* The place of declaration i in that order.
Rank(i) == Cardinality({ j \in 1..Len(decls) : Before(j, i) }) + 1

\* C10: the candidate list of a callable holds the declarations of class F
\* ordered by method name in order of each name's first declaration and,
\* within a name, latest applied declaration first; of the candidates that
\* accept the arguments the one earliest in this order is invoked.
C10_CandidateOrder ==
    Settled =>
      LET First(res, acc, ranks) ==
            \A r \in ranks : r \in acc => (res.error = "" /\ res.cand <= r)
          Ordered(rank, ranks) ==
            \A f \in Callables :
              /\ Len(f.sequence) = Len(decls)
              /\ \A i \in 1..Len(decls) :
                   /\ f.sequence[rank[i]].method = decls[i].key
                   /\ Arity(f, rank[i]) = Len(decls[i].params)
                   /\ \A p \in 1..Len(decls[i].params) :
                        f.sequence[rank[i]].slots[p].types[1] = decls[i].params[p]
              /\ \A args \in ArgLists :
                   First(Call(heap, f, args), Accepting(f, args), ranks)
      IN Ordered([i \in 1..Len(decls) |-> Rank(i)],
                 { Rank(i) : i \in 1..Len(decls) })

\* Class F declares a, then b, then a again, and a call went to the
\* candidate of the third declaration, the first of the candidate list.
C10_Witness ==
    /\ Len(decls) = 3
    /\ decls[1].key = decls[3].key /\ decls[2].key # decls[1].key
    /\ Rank(3) = 1 /\ Rank(1) = 2 /\ Rank(2) = 3
    /\ out.op = "call" /\ out.error = "" /\ out.cand = 1
    /\ out.method = decls[3].key

\* The converter of the first conversion edge fromType -> toType.
EdgeConvert(fromType, toType) ==
    LET edges == conversions[toType]
        first == CHOOSE j \in 1..Len(edges) :
                   /\ edges[j].fromType = fromType
                   /\ \A h \in 1..(j - 1) : edges[h].fromType # fromType
    IN edges[first].convert

HasEdge(fromType, toType) ==
    \E j \in 1..Len(conversions[toType]) : conversions[toType][j].fromType = fromType

\* C2: in every call, an argument the declared type's guard accepts reaches
\* the method unchanged, and an argument the selected candidate accepts only
\* through a conversion edge fromType -> declared type reaches it converted
\* by that edge. Every @signature of class F declares one type per
\* parameter, which stays the first of the parameter's array.
C2_ConversionApplied ==
    Settled =>
      \A n \in 1..Len(fns) : \A args \in ArgLists :
        LET f == fns[n]
            Holds(res) ==
              res.error = "" =>
                \A p \in 1..Len(args) :
                  LET slot == f.sequence[res.cand].slots[p]
                  IN IF intersect(heap, slot.guards[1], args[p])
                     THEN res.args[p] = args[p]
                     ELSE \A k \in 2..Len(slot.types) :
                            ( /\ intersect(heap, slot.guards[k], args[p])
                              /\ \A h \in 1..(k - 1) :
                                   ~intersect(heap, slot.guards[h], args[p])
                              /\ HasEdge(slot.types[k], slot.types[1]) )
                            => res.args[p] =
                                 ApplyConversion(
                                   EdgeConvert(slot.types[k], slot.types[1]),
                                   args[p])
        IN Holds(Call(heap, f, args))

\* C4: Typed.function on a class without signature metadata, or with a
\* signature map without entries, throws 'No signatures provided'.
C4_NoSignatures ==
    (out.op = "function" /\ out.ctor \in {"Bare", "Empty"})
      => out.error = "No signatures provided"

\* The tokens of a parameter's array and the fromTypes expansion adds to it.
ExpandedSet(types) ==
    { types[i] : i \in 1..Len(types) }
      \cup UNION { { conversions[types[i]][j].fromType :
                        j \in 1..Len(conversions[types[i]]) } :
                    i \in 1..Len(types) }

\* Some parameter of the class has a token without guard in its declared or
\* expanded set.
HasUnregistered(ctor) ==
    \E k \in 1..Len(meta[ctor].map) :
      \E s \in 1..Len(meta[ctor].map[k].sigs) :
        \E p \in 1..Len(meta[ctor].map[k].sigs[s]) :
          \E t \in ExpandedSet(meta[ctor].map[k].sigs[s][p]) : guards[t] = 0

UnknownTypeErrors == { "Unknown type " \o t : t \in Ctors }

\* Every guard of every slot of every callable is a stored guard array.
AllResolved(callables) ==
    \A n \in 1..Len(callables) : \A c \in 1..Len(callables[n].sequence) :
      \A p \in 1..Len(callables[n].sequence[c].slots) :
        LET slot == callables[n].sequence[c].slots[p]
        IN /\ Len(slot.guards) = Len(slot.types)
           /\ \A k \in 1..Len(slot.guards) : slot.guards[k] \in 1..Len(heap)

\* C3: with autoadd off, Typed.function on a class one of whose parameters
\* has, in its declared or expanded set, a token without guard throws
\* 'Unknown type' and returns no callable; every callable returned has all
\* its guards resolved, and no call throws 'Unknown type'.
C3_UnknownTypeAtCompile ==
    [][ /\ ( /\ out'.op = "function" /\ ~autoadd
             /\ meta[out'.ctor].defined /\ HasUnregistered(out'.ctor) )
           => (out'.error \in UnknownTypeErrors /\ fns' = fns)
        /\ (fns' # fns \/ heap' # heap) => AllResolved(fns)'
        /\ out'.op = "call" => out'.error \notin UnknownTypeErrors ]_vars

\* Typed.function threw 'Unknown type Pair' for a Number parameter to which
\* expansion added Pair, the fromType of toNumber, while Pair has no guard.
C3_Witness ==
    /\ ~autoadd /\ guards["Pair"] = 0
    /\ out.op = "function" /\ out.ctor = "F" /\ out.error = "Unknown type Pair"
    /\ \A k \in 1..Len(meta["F"].map) : \A s \in 1..Len(meta["F"].map[k].sigs) :
         \A p \in 1..Len(meta["F"].map[k].sigs[s]) :
           meta["F"].map[k].sigs[s][p][1] = "Number"
    /\ meta["F"].map[1].sigs[1][1] = << "Number", "Pair" >>

\* C6: in the callable Typed.function just returned, a slot accepts a value
\* for a token iff every guard stored under that token by then, by add or
\* by autoadd, holds of the value.
C6_AllRegisteredGuards ==
    (out.op = "function" /\ out.error = "") =>
      \A c \in 1..Len(fns[Len(fns)].sequence) :
        \A p \in 1..Len(fns[Len(fns)].sequence[c].slots) :
          LET slot == fns[Len(fns)].sequence[c].slots[p]
          IN \A k \in 1..Len(slot.types) : \A x \in Values :
               intersect(heap, slot.guards[k], x)
                 <=> \A g \in registered[slot.types[k]] : GuardHolds(g, x)

\* C7: no step changes a callable or what it does for any argument list,
\* and a call changes neither the registry nor the metadata nor a callable.
C7_BehaviourFixed ==
    [][ /\ Len(fns') >= Len(fns)
        /\ \A n \in 1..Len(fns) : fns'[n] = fns[n]
        /\ (Settled /\ heap' # heap) =>
             \A n \in 1..Len(fns) : \A args \in ArgLists :
               Call(heap', fns[n], args) = Call(heap, fns[n], args)
        /\ out'.op = "call" =>
             UNCHANGED << guards, heap, conversions, meta, fns >> ]_vars

\* A call succeeded on a callable that holds, for Pair, a guard array the
\* registry has since replaced by a longer one.
C7_Witness ==
    /\ out.op = "call" /\ out.error = "" /\ Len(out.args) > 0
    /\ guards["Pair"] # 0
    /\ \E n \in 1..Len(fns) :
         /\ out.cand <= Len(fns[n].sequence)
         /\ fns[n].sequence[out.cand].method = out.method
         /\ Len(fns[n].sequence[out.cand].slots) = Len(out.args)
         /\ LET slot == fns[n].sequence[out.cand].slots[1]
            IN /\ slot.types[1] = "Pair"
               /\ slot.guards[1] # guards["Pair"]
               /\ Len(heap[slot.guards[1]]) < Len(heap[guards["Pair"]])

\* C8: an add of the class the previous add added leaves every guard list
\* and every conversion list as the previous add left it.
C8_AddIdempotent ==
    [][ (out.op = "add" /\ out'.op = "add" /\ out'.ctor = out.ctor)
          => \A t \in Ctors :
               /\ Existing(Registry', t) = Existing(Registry, t)
               /\ conversions'[t] = conversions[t] ]_vars

RECURSIVE IsSubseq(_, _)
IsSubseq(a, b) ==
    IF a = << >> THEN TRUE
    ELSE IF b = << >> THEN FALSE
    ELSE IF Head(a) = Head(b) THEN IsSubseq(Tail(a), Tail(b))
    ELSE IsSubseq(a, Tail(b))

\* C9: every step keeps, under every constructor, the guards and the
\* conversion edges stored before it, in their order.
C9_RegistryGrows ==
    [][ \A t \in Ctors :
          /\ IsSubseq(Existing(Registry, t), Existing(Registry', t))
          /\ IsSubseq(conversions[t], conversions'[t]) ]_vars

\* The fromTypes of edges, in edge order, appended to acc when not in it.
RECURSIVE AppendNew(_, _)
AppendNew(acc, edges) ==
    IF edges = << >> THEN acc
    ELSE AppendNew(IF \E h \in 1..Len(acc) : acc[h] = Head(edges).fromType
                   THEN acc ELSE Append(acc, Head(edges).fromType),
                   Tail(edges))

\* The declared type followed by the fromType of each conversion edge that
\* ends at it.
OneHop(declared) == AppendNew(<< declared >>, conversions[declared])

\* C11: in the callable Typed.function just returned, the accepted types of
\* the slot of every declared parameter are the declared type followed by
\* the fromTypes of the edges that end at the declared type, each once; a
\* type that reaches the declared type through two edges is not among them.
C11_OneHopOnly ==
    (out.op = "function" /\ out.ctor = "F" /\ out.error = "") =>
      LET f == fns[Len(fns)]
      IN \A i \in 1..Len(decls) : \A p \in 1..Len(decls[i].params) :
           f.sequence[Rank(i)].slots[p].types = OneHop(decls[i].params[p])

\* C12: the callables of the three special cases of _makeFunction (all
\* candidates without parameters, one candidate, two candidates) do, for
\* every argument list, what the choose-based callable over the same
\* sequence does: same candidate, same converted arguments, or NoMatch.
C12_FastPathsAgree ==
    Settled =>
      \A f \in Callables : \A args \in ArgLists :
        f.mode # "choose" =>
          Call(heap, f, args) = CallChoose(heap, f.sequence, args)

\* A call of (3, Pair(0,6)) on a two-candidate callable went to a candidate
\* that converted the number, as the scan over the same sequence does.
C12_Witness ==
    /\ out.op = "call" /\ out.error = ""
    /\ out.args = << "P30", "P06" >>
    /\ \E n \in 1..Len(fns) :
         /\ fns[n].mode = "two"
         /\ Outcome(Call(heap, fns[n], << "n3", "P06" >>)) = out
         /\ Outcome(CallChoose(heap, fns[n].sequence, << "n3", "P06" >>)) = out

\* The first place of the slot whose guard accepts x, 0 when none does.
FirstAccepting(slot, x) ==
    IF \E k \in 1..Len(slot.guards) : intersect(heap, slot.guards[k], x)
    THEN CHOOSE k \in 1..Len(slot.guards) :
           /\ intersect(heap, slot.guards[k], x)
           /\ \A h \in 1..(k - 1) : ~intersect(heap, slot.guards[h], x)
    ELSE 0

\* What the converter of the token at place k of the slot makes of x: x
\* itself for the declared type, for a conversion source what the first edge
\* from it to the declared type makes of x.
ConvertedBy(slot, k, x) ==
    IF k = 1 THEN x
    ELSE ApplyConversion(EdgeConvert(slot.types[k], slot.types[1]), x)

\* C13: in every successful call, an argument whose slot has converters
\* reaches the method as converted by the converter of the first token of
\* the slot, declared type first and conversion sources in the order they
\* were added, whose guard accepts it: unchanged when the declared type's
\* guard accepts it, by the earliest accepting source's edge otherwise.
C13_FirstTokenConverter ==
    Settled =>
      \A f \in Callables : \A args \in ArgLists :
        LET Right(slot, k, x, y) ==
              /\ k = 1 \/ HasEdge(slot.types[k], slot.types[1])
              /\ y = ConvertedBy(slot, k, x)
            Holds(res) ==
              res.error = "" =>
                \A p \in 1..Len(args) :
                  f.sequence[res.cand].slots[p].converters # << >> =>
                    Right(f.sequence[res.cand].slots[p],
                          FirstAccepting(f.sequence[res.cand].slots[p], args[p]),
                          args[p], res.args[p])
        IN Holds(Call(heap, f, args))

\* The accepted types and the converters of every slot of a callable.
Tables(f) ==
    [c \in 1..Len(f.sequence) |->
       [p \in 1..Len(f.sequence[c].slots) |->
          [types |-> f.sequence[c].slots[p].types,
           converters |-> f.sequence[c].slots[p].converters]]]

\* C14: Typed.function, whether it returns or throws, leaves the parameter
\* type lists stored for the signatures of every function spec as they were,
\* and a compile of class F straight after a compile of class F returns a
\* callable with the same accepted types and converters.
C14_SpecUnchanged ==
    [][ /\ out'.op = "function" => meta' = meta
        /\ ( /\ out.op = "function" /\ out.ctor = "F" /\ out.error = ""
             /\ out'.op = "function" /\ out'.ctor = "F" /\ out'.error = "" )
           => Tables(fns'[Len(fns')]) = Tables(fns[Len(fns)]) ]_vars

====
